---------------------------- MODULE Spec2Model ----------------------------
(***************************************************************************)
(* A model of react-detour (src/src/detour.ts): the RouteOutlet component  *)
(* made by withRoutes, its computeOutlet protocol (zone ids, promised      *)
(* components, outlets state) and the path patterns it compiles with       *)
(* pathToRegexp.                                                           *)
(*                                                                         *)
(* Strings that the code slices or matches (paths, path patterns, captured *)
(* params) are sequences of one-character strings: "/a/b" is               *)
(* <<"/","a","/","b">> and "" is <<>>.  Object keys and parameter names    *)
(* are plain strings.                                                      *)
(***************************************************************************)
EXTENDS Naturals, Sequences, FiniteSets

(***************************************************************************)
(* Bounds of the model.                                                    *)
(***************************************************************************)
\* computeOutlet calls made on one RouteOutlet instance
MaxCalls == 2
\* longest path enumerated for the pattern-matching specification
MaxPathLen == 4

(***************************************************************************)
(* Path patterns: pathToRegexp(path, { end }) as called by toRouteHandler. *)
(* The pattern language covered is the one the routes use: literal         *)
(* characters, "/:name" parameters and the "/*" asterisk (no escapes, no   *)
(* custom groups, no "+", "*" or "?" modifier after a parameter).          *)
(***************************************************************************)
\* \w in the parameter name of a pattern
IsWord(c) == c \in {"a", "b", "c", "d", "A", "B", "0", "2", "4"}

\* the RegExp is built with the "i" flag: literals compare without case
Lower(c) == CASE c = "A" -> "a" [] c = "B" -> "b" [] OTHER -> c

\* the maximal run of \w characters of str starting at position p
RECURSIVE WordEnd(_, _)
WordEnd(str, p) ==
  IF p <= Len(str) /\ IsWord(str[p]) THEN WordEnd(str, p + 1) ELSE p

\* does a key token start at position p of the pattern: 0 for no, else the
\* position right after it
TokenEnd(str, p) ==
  LET q == IF str[p] = "/" THEN p + 1 ELSE p   \* optional prefix ([\/.])?
      at(r) ==
        IF r > Len(str) THEN 0
        ELSE IF str[r] = ":" /\ WordEnd(str, r + 1) > r + 1
             THEN WordEnd(str, r + 1)
        ELSE IF str[r] = "*" THEN r + 1
        ELSE 0
  IN  IF at(q) # 0 THEN at(q) ELSE IF q # p THEN at(p) ELSE 0

\* an unnamed key is named by its index, and an object key is a string
Digit(k) == CASE k = 0 -> "0" [] k = 1 -> "1" [] k = 2 -> "2" [] OTHER -> "3"

\* the key token that starts at position p and ends before position e
KeyToken(str, p, e, key) ==
  LET prefix   == IF str[p] = "/" /\ e > p + 1 THEN <<"/">> ELSE <<>>
      q        == p + Len(prefix)
      asterisk == str[q] = "*"
  IN  [ kind     |-> "key",
        name     |-> IF asterisk THEN <<Digit(key)>>
                     ELSE SubSeq(str, q + 1, e - 1),
        prefix   |-> prefix,
        asterisk |-> asterisk ]

\* parse(str): the tokens of a pattern, literal runs and key tokens in order
RECURSIVE Parse(_, _, _, _, _)
Parse(str, p, lit, key, tokens) ==
  LET flush == IF lit = <<>> THEN tokens
               ELSE Append(tokens, [kind |-> "lit", text |-> lit])
  IN  IF p > Len(str) THEN flush
      ELSE IF TokenEnd(str, p) # 0
           THEN LET e == TokenEnd(str, p)
                    t == KeyToken(str, p, e, key)
                IN  Parse(str, e, <<>>,
                          IF t.asterisk THEN key + 1 ELSE key,
                          Append(flush, t))
      ELSE Parse(str, p + 1, Append(lit, str[p]), key, tokens)

\* tokensToRegExp: without `strict`, a route that ends with the delimiter
\* loses it; `keys` are the names of the key tokens in order
StripDelimiter(tokens) ==
  LET n == Len(tokens)
  IN  IF n > 0 /\ tokens[n].kind = "lit" /\ tokens[n].text[Len(tokens[n].text)] = "/"
      THEN [tokens EXCEPT ![n].text = SubSeq(@, 1, Len(@) - 1)]
      ELSE tokens

RECURSIVE KeysOf(_)
KeysOf(tokens) ==
  IF tokens = <<>> THEN <<>>
  ELSE IF Head(tokens).kind = "key"
       THEN <<Head(tokens).name>> \o KeysOf(Tail(tokens))
       ELSE KeysOf(Tail(tokens))

PathToRegexp(path, end) ==
  [ tokens |-> StripDelimiter(Parse(path, 1, <<>>, 0, <<>>)),
    keys   |-> KeysOf(Parse(path, 1, <<>>, 0, <<>>)),
    end    |-> end ]

NoMatch == [ok |-> FALSE, len |-> 0, caps |-> <<>>]

\* does the literal text stand at position pos of str, case ignored
LitAt(text, str, pos) ==
  /\ pos + Len(text) - 1 <= Len(str)
  /\ \A k \in 1..Len(text) : Lower(str[pos + k - 1]) = Lower(text[k])

\* the end of the RegExp: (?:\/(?=$))? and then $ (end) or (?=\/|$)
MatchEnd(str, pos, caps, end) ==
  IF pos = Len(str) /\ str[pos] = "/"
  THEN [ok |-> TRUE, len |-> pos, caps |-> caps]
  ELSE IF pos = Len(str) + 1 \/ (~end /\ str[pos] = "/")
       THEN [ok |-> TRUE, len |-> pos - 1, caps |-> caps]
       ELSE NoMatch

\* the RegExp matched from token i at position pos, in the order a
\* backtracking matcher tries: a parameter ([^\/]+?) takes as few characters
\* as it can, the asterisk (.*) as many
RECURSIVE MatchFrom(_, _, _, _, _, _), MatchCapture(_, _, _, _, _, _, _)
MatchFrom(tokens, i, str, pos, caps, end) ==
  IF i > Len(tokens) THEN MatchEnd(str, pos, caps, end)
  ELSE LET t == tokens[i]
       IN  IF t.kind = "lit"
           THEN IF LitAt(t.text, str, pos)
                THEN MatchFrom(tokens, i + 1, str, pos + Len(t.text), caps, end)
                ELSE NoMatch
           ELSE IF LitAt(t.prefix, str, pos)
                THEN MatchCapture(tokens, i, str, pos + Len(t.prefix),
                                  IF t.asterisk
                                  THEN Len(str) + 1 - (pos + Len(t.prefix))
                                  ELSE 1,
                                  caps, end)
                ELSE NoMatch

\* the capture of key token i starts at position start and takes n characters
MatchCapture(tokens, i, str, start, n, caps, end) ==
  LET t    == tokens[i]
      fits == /\ start + n - 1 <= Len(str)
              /\ t.asterisk \/ \A k \in start..(start + n - 1) : str[k] # "/"
      r    == MatchFrom(tokens, i + 1, str, start + n,
                        Append(caps, SubSeq(str, start, start + n - 1)), end)
  IN  IF t.asterisk
      THEN IF fits /\ r.ok THEN r
           ELSE IF n = 0 THEN NoMatch
           ELSE MatchCapture(tokens, i, str, start, n - 1, caps, end)
      ELSE IF ~fits THEN NoMatch
           ELSE IF r.ok THEN r
           ELSE MatchCapture(tokens, i, str, start, n + 1, caps, end)

\* pathRegExp.exec(path): the match and its captures
Exec(re, str) ==
  LET r == MatchFrom(re.tokens, 1, str, 1, <<>>, re.end)
  IN  [ok |-> r.ok, match |-> SubSeq(str, 1, r.len), caps |-> r.caps]

\* pathRegExp.test(path)
Test(re, str) == MatchFrom(re.tokens, 1, str, 1, <<>>, re.end).ok

(***************************************************************************)
(* Route handlers.  A user route handler is                                *)
(*   [path, end, component]                                                *)
(* with end one of "true", "false", "undefined" and component either a     *)
(* thunk ([type |-> "function"]) or a map of thunks ([type |-> "object"],  *)
(* keys in Object.keys order).                                             *)
(***************************************************************************)
Thunk == [type |-> "function", keys |-> <<>>]
ThunkMap(keys) == [type |-> "object", keys |-> keys]
Route(path, end, component) ==
  [path |-> path, end |-> end, component |-> component]

\* a changed EndOption: `end` is handed on as it is, and pathToRegexp takes
\* undefined for true
EndOptionHandedOn(user) == user.end # "false"

\* the `end` option toRouteHandler gives pathToRegexp
EndOption(user) ==
  IF user.end \in {"true", "false"} THEN user.end = "true"
  ELSE user.path = <<"/">>

toRouteHandler(user) ==
  [ pathRegExp |-> PathToRegexp(user.path, EndOption(user)),
    component  |-> user.component ]

\* the thunks getComponents calls, in call order, each named by the key its
\* component gets in the promised components map
ThunkKeys(routeHandler) ==
  IF routeHandler.component.type = "function" THEN <<"default">>
  ELSE routeHandler.component.keys

(***************************************************************************)
(* The state of one RouteOutlet instance and of the promises it waits for. *)
(***************************************************************************)
VARIABLES
  userRouteHandlers,  \* the argument of withRoutes
  routeHandlers,      \* RouteOutlet.routeHandlers
  contextPath,        \* the path the enclosing PathProvider provides
  mounted,            \* componentDidMount has run
  outlets,            \* this.state.outlets
  currentZoneID,      \* this.currentZoneID
  zones,              \* the computeOutlet calls so far, zones[zoneID]
  consoleErrors,      \* the zone ids console.error was called for
  uncaught,           \* the zone ids whose exception nothing caught
  unmounted,          \* React has unmounted the instance
  rendered,           \* what render last returned, <<>> before the first render
  discarded,          \* the zone ids whose callback called this.setState
                      \* on the unmounted component
  resolverRoute,      \* the route handler whose thunk promises a component
                      \* made by withRoutes itself (0: none does)
  child               \* the instance of that component mounted in an outlet

vars == << userRouteHandlers, routeHandlers, contextPath, mounted, outlets,
           currentZoneID, zones, consoleErrors, uncaught, unmounted, rendered,
           discarded, resolverRoute, child >>

EmptyObject == [k \in {} |-> <<>>]

\* obj[k] = v
Assign(obj, k, v) ==
  [x \in DOMAIN obj \cup {k} |-> IF x = k THEN v ELSE obj[x]]

\* routeHandlers.find(({ pathRegExp }) => pathRegExp.test(path)): the index
\* of the handler found, 0 for undefined
RECURSIVE FindFrom(_, _, _)
FindFrom(handlers, i, path) ==
  IF i > Len(handlers) THEN 0
  ELSE IF Test(handlers[i].pathRegExp, path) THEN i
  ELSE FindFrom(handlers, i + 1, path)

\* a changed Find: the last handler that matches, not the first
RECURSIVE FindLastFrom(_, _, _)
FindLastFrom(handlers, i, path) ==
  IF i < 1 THEN 0
  ELSE IF Test(handlers[i].pathRegExp, path) THEN i
  ELSE FindLastFrom(handlers, i - 1, path)

FindLast(handlers, path) == FindLastFrom(handlers, Len(handlers), path)

Find(handlers, path) == FindFrom(handlers, 1, path)

\* a changed PathRest: the slash after the match is dropped too
PathRestAfterSlash(path, match) == SubSeq(path, Len(match) + 2, Len(path))

\* path.slice(match.length)
PathRest(path, match) == SubSeq(path, Len(match) + 1, Len(path))

\* a changed SetParams: every name gets the first capture
RECURSIVE SetParamsFirstCapture(_, _, _, _)
SetParamsFirstCapture(params, keys, matches, i) ==
  IF i > Len(matches) THEN params
  ELSE SetParamsFirstCapture(Assign(params, keys[i], matches[1]),
                             keys, matches, i + 1)

\* matches.forEach((match, i) => params[keys[i].name] = match)
RECURSIVE SetParams(_, _, _, _)
SetParams(params, keys, matches, i) ==
  IF i > Len(matches) THEN params
  ELSE SetParams(Assign(params, keys[i], matches[i]), keys, matches, i + 1)

\* providePath(pathRest, createElement(component, params)): the component
\* is the one the thunk under `key` of route handler h promises
Element(h, key, params, pathRest) ==
  [component |-> [route |-> h, key |-> key], props |-> params, path |-> pathRest]

\* the outlets the then-callback of computeOutlet builds from the h-th of
\* the route handlers
BuildOutletsOf(handlers, h, path) ==
  LET routeHandler == handlers[h]
      exec         == Exec(routeHandler.pathRegExp, path)
      pathRest     == PathRest(path, exec.match)
      params       == SetParams(EmptyObject, routeHandler.pathRegExp.keys,
                                exec.caps, 1)
      keys         == ThunkKeys(routeHandler)
  IN  [key \in {keys[i] : i \in 1..Len(keys)} |->
         Element(h, key, params, pathRest)]

BuildOutlets(h, path) == BuildOutletsOf(routeHandlers, h, path)

\* a changed SetState: the new outlets are merged into the old ones
SetStateMerged(old, new) ==
  [k \in DOMAIN old \cup DOMAIN new |-> IF k \in DOMAIN new THEN new[k] ELSE old[k]]

\* this.setState({ outlets })
SetState(old, new) == new

\* a changed Render: the children are the first outlet there is
RenderAnyOutlet(state) ==
  [ props    |-> [outlets |-> state],
    children |-> IF state = EmptyObject THEN <<>>
                 ELSE <<state[CHOOSE k \in DOMAIN state : TRUE]>> ]

\* render(): the element of the composed component, its props (the own
\* props of the RouteOutlet, left out, and outlets) and its children
Render(state) ==
  [ props    |-> [outlets |-> state],
    children |-> IF "default" \in DOMAIN state THEN <<state["default"]>>
                 ELSE <<>> ]

\* the record of a computeOutlet call: the thunks of its route handler are
\* "notcalled", "threw", "pending", "fulfilled" or "rejected"; `threw` says
\* a thunk threw when called, and computeOutlet with it; `reason` is what
\* the getComponents promise rejected with ("none" while it has not);
\* `done` says its then-callback, or its catch-callback after a rejection,
\* has run; `thenError` is "threw" when the then-callback threw and the
\* catch-callback chained on it is still to run, "caught" when it has run,
\* and `thrown` is what it threw ("Error", "nullish", or "none")
Zone(path, h, thunks, threw) ==
  [ path |-> path, handler |-> h, thunks |-> thunks, threw |-> threw,
    reason |-> "none", done |-> h = 0 \/ threw, thenError |-> "none",
    thrown |-> "none" ]

\* the thunks after getComponents called them in order, the t-th one
\* throwing (t = 0: none throws)
CalledThunks(keys, t) ==
  [key \in {keys[i] : i \in 1..Len(keys)} |->
     IF t = 0 \/ (\E i \in 1..(t - 1) : keys[i] = key) THEN "pending"
     ELSE IF keys[t] = key THEN "threw"
     ELSE "notcalled"]

\* a changed NoRouteHandler: returns without setting the state
NoRouteHandlerReturnsOnly(old) == old

\* if (!routeHandler) return this.setState({ outlets: {} })
NoRouteHandler(old) == SetState(old, EmptyObject)

\* a changed SameZone: the callbacks do not look at the zone
SameZoneUnchecked(zoneID) == TRUE

\* a changed SameZone: the callbacks hold the zone id read before it was
\* incremented
SameZoneBeforeIncrement(zoneID) == zoneID - 1 = currentZoneID

\* if (zoneID !== this.currentZoneID) return
SameZone(zoneID) == zoneID = currentZoneID

\* a changed ComputeOutlet: the outlets are emptied while the components
\* of the route handler found are loading
ComputeOutletClearing(path) ==
  LET zoneID == currentZoneID + 1
      h      == Find(routeHandlers, path)
  IN  /\ currentZoneID' = zoneID
      /\ outlets' = SetState(outlets, EmptyObject)
      /\ IF h = 0
         THEN /\ zones' = Append(zones, Zone(path, 0, EmptyObject, FALSE))
              /\ uncaught' = uncaught
         ELSE \E t \in 0..Len(ThunkKeys(routeHandlers[h])) :
                /\ zones' = Append(zones,
                     Zone(path, h, CalledThunks(ThunkKeys(routeHandlers[h]), t),
                          t # 0))
                /\ uncaught' = IF t # 0 THEN Append(uncaught, zoneID)
                               ELSE uncaught
      /\ consoleErrors' = consoleErrors

\* computeOutlet(path) up to the call of getComponents, whose thunks are
\* called in order: either none throws (t = 0) and the promise of the
\* components is pending, or the t-th throws and computeOutlet throws
ComputeOutlet(path) ==
  LET zoneID == currentZoneID + 1
      h      == Find(routeHandlers, path)
  IN  /\ currentZoneID' = zoneID
      /\ IF h = 0
         THEN /\ outlets' = NoRouteHandler(outlets)
              /\ zones' = Append(zones, Zone(path, 0, EmptyObject, FALSE))
              /\ uncaught' = uncaught
         ELSE \E t \in 0..Len(ThunkKeys(routeHandlers[h])) :
                /\ outlets' = outlets
                /\ zones' = Append(zones,
                     Zone(path, h, CalledThunks(ThunkKeys(routeHandlers[h]), t),
                          t # 0))
                /\ uncaught' = IF t # 0 THEN Append(uncaught, zoneID)
                               ELSE uncaught
      /\ consoleErrors' = consoleErrors

(***************************************************************************)
(* The inputs: paths and route tables.                                     *)
(***************************************************************************)
Chars == {"/", "a", "b", "A"}

\* every string over Chars of length n
RECURSIVE StringsOfLen(_)
StringsOfLen(n) ==
  IF n = 0 THEN {<<>>}
  ELSE {Append(str, c) : str \in StringsOfLen(n - 1), c \in Chars}

\* the paths of the tests that are longer or use other characters
TestPaths ==
  { <<"/", "4", "/", "2">>,
    <<"/", "c", "/", "d">>,
    <<"/", "a", "/", "b", "/", "c">>,
    <<"/", "a", "b", "/", "c", "d">>,
    <<"/", "n", "o", "t", "-", "f", "o", "u", "n", "d">> }

MatchPaths == UNION {StringsOfLen(n) : n \in 0..MaxPathLen} \cup TestPaths

pIndex == <<"/">>
pA     == <<"/", "a">>
pB     == <<"/", "b">>
pC     == <<"/", "c">>
pAB    == <<"/", "a", "b">>
pCD    == <<"/", "c", "d">>
pStar  == <<"/", "*">>
pParams == <<"/", ":", "a", "/", ":", "b">>

\* the route tables of the tests, and tables that give `end`
MatchTables ==
  { << Route(pA, "undefined", Thunk), Route(pB, "undefined", Thunk) >>,
    << Route(pIndex, "undefined", Thunk), Route(pA, "undefined", Thunk),
       Route(pB, "undefined", Thunk) >>,
    << Route(pA, "undefined", Thunk), Route(pStar, "undefined", Thunk),
       Route(pC, "undefined", Thunk) >>,
    << Route(pParams, "undefined", Thunk) >>,
    << Route(pAB, "undefined", ThunkMap(<<"one", "two">>)),
       Route(pCD, "undefined", ThunkMap(<<"one", "two">>)) >>,
    << Route(pA, "true", Thunk), Route(pIndex, "false", Thunk) >>,
    << Route(pParams, "true", ThunkMap(<<"default">>)),
       Route(pA, "false", Thunk), Route(pIndex, "true", Thunk) >> }

\* the tables and paths of the protocol specification
Tables ==
  { << Route(pA, "undefined", Thunk), Route(pC, "undefined", Thunk) >>,
    << Route(pAB, "undefined", ThunkMap(<<"one", "two">>)),
       Route(pParams, "undefined", ThunkMap(<<"two", "three">>)) >>,
    << Route(pA, "undefined", ThunkMap(<<"default", "one">>)) >> }

Paths ==
  { <<"/">>, <<"/", "a">>, <<"/", "a", "b">>, <<"/", "c", "/", "d">> }

(***************************************************************************)
(* Nested routing: the component a thunk promises may itself be made by    *)
(* withRoutes.  React mounts an instance of it when the outlet is rendered,*)
(* updates the instance each time the parent renders the outlet again and  *)
(* unmounts it when the outlet is gone.  The nested instance is            *)
(*   [mounted, outlets, currentZoneID, zones]                              *)
(* with zones as those of the parent.                                      *)
(***************************************************************************)
pD == <<"/", "d">>

\* the route tables of the test of nested routing: E, whose first route
\* promises C, and C
NestedTables ==
  { << Route(pC, "undefined", Thunk), Route(pD, "undefined", Thunk) >> }

ChildRoutes == << Route(pA, "undefined", Thunk), Route(pB, "undefined", Thunk) >>

\* paths of that test, "/c/c" standing for "/c/not-found"
NestedPaths ==
  { <<"/", "c", "/", "a">>, <<"/", "c", "/", "c">>, <<"/", "d">> }

\* the paths the enclosing PathProvider goes through
SuppliedPaths == IF resolverRoute = 0 THEN Paths ELSE NestedPaths

childRouteHandlers ==
  [i \in DOMAIN ChildRoutes |-> toRouteHandler(ChildRoutes[i])]

NoChild ==
  [mounted |-> FALSE, outlets |-> EmptyObject, currentZoneID |-> 0,
   zones |-> <<>>]

\* a changed ProvidedPath: the path of the enclosing provider shows through
ProvidedPathOuter(element) == contextPath

\* PathProvider.getChildContext: the path the element put around an outlet
\* by providePath gives to what is rendered inside
ProvidedPath(element) == element.path

\* the outlets whose component is the nested RouteOutlet
ResolverKeys(state) ==
  {key \in DOMAIN state : state[key].component.route = resolverRoute}

\* computeOutlet(path) of the nested instance c, called by its
\* componentDidMount or its componentWillReceiveProps; the t-th thunk
\* throws (t = 0: none throws)
ChildComputeOutlet(c, path, t) ==
  LET zoneID == c.currentZoneID + 1
      h      == Find(childRouteHandlers, path)
  IN  [ mounted       |-> TRUE,
        currentZoneID |-> zoneID,
        outlets       |-> IF h = 0 THEN NoRouteHandler(c.outlets)
                          ELSE c.outlets,
        zones         |-> Append(c.zones,
          IF h = 0 THEN Zone(path, 0, EmptyObject, FALSE)
          ELSE Zone(path, h,
                    CalledThunks(ThunkKeys(childRouteHandlers[h]), t),
                    t # 0)) ]

\* React renders the children of the RouteOutlet whose state.outlets is
\* `state`: the consumer puts the outlets in its output, so the nested
\* instance is mounted or updated with the path provided around its
\* outlet, and unmounted when no outlet holds its component
Reconcile(state) ==
  IF ResolverKeys(state) = {} THEN child' = NoChild
  ELSE LET element == state[CHOOSE key \in ResolverKeys(state) : TRUE]
           path    == ProvidedPath(element)
           h       == Find(childRouteHandlers, path)
       IN  \E t \in 0..(IF h = 0 THEN 0
                        ELSE Len(ThunkKeys(childRouteHandlers[h]))) :
             child' = ChildComputeOutlet(child, path, t)

\* the children after a lifecycle call that ran computeOutlet: an exception
\* thrown out of it ends the update before anything is rendered
ReconcileAfterCall ==
  IF zones'[currentZoneID'].threw THEN child' = child
  ELSE Reconcile(outlets')

\* the children after componentWillReceiveProps ran computeOutlet in an
\* update with the context it had: state.outlets still holds the elements
\* rendered before unless it was emptied, and React leaves an instance
\* alone whose element and context are the ones it has
ReconcileSameContext ==
  IF zones'[currentZoneID'].threw THEN child' = child
  ELSE IF ResolverKeys(outlets') = {} THEN child' = NoChild
  ELSE child' = child

(***************************************************************************)
(* The state after construction, and the steps.                            *)
(***************************************************************************)
InitWith(tables, paths) ==
  /\ userRouteHandlers \in tables
  /\ routeHandlers =
       [i \in DOMAIN userRouteHandlers |-> toRouteHandler(userRouteHandlers[i])]
  /\ contextPath \in paths
  /\ mounted = FALSE
  /\ outlets = EmptyObject
  /\ currentZoneID = 0
  /\ zones = <<>>
  /\ consoleErrors = <<>>
  /\ uncaught = <<>>
  /\ unmounted = FALSE
  /\ rendered = <<>>
  /\ discarded = <<>>
  /\ child = NoChild

Init == InitWith(Tables, Paths) /\ resolverRoute = 0

InitMatch == InitWith(MatchTables, MatchPaths) /\ resolverRoute = 0

\* E of the tests of nested routing: the first route promises C
InitNested == InitWith(NestedTables, NestedPaths) /\ resolverRoute = 1

\* the component is mounted: it is rendered, componentDidMount runs, and
\* a setState made there renders it again
componentDidMount ==
  /\ ~mounted /\ ~unmounted
  /\ mounted' = TRUE
  /\ ComputeOutlet(contextPath)
  /\ rendered' = <<Render(outlets')>>
  /\ ReconcileAfterCall
  /\ UNCHANGED << userRouteHandlers, routeHandlers, contextPath, unmounted,
                  resolverRoute, discarded >>

\* the component is updated, with a context path that may be the same as
\* before: componentWillReceiveProps runs and the component is rendered.
\* The update comes from the PathProvider above, rendered again (a new
\* context), or from a component in between (the same context and path)
componentWillReceiveProps ==
  /\ mounted /\ ~unmounted
  /\ currentZoneID < MaxCalls
  /\ \E nextPath \in SuppliedPaths :
       /\ contextPath' = nextPath
       /\ ComputeOutlet(nextPath)
  /\ rendered' = <<Render(outlets')>>
  /\ \E context \in {"new", "same"} :
       IF context = "new" THEN ReconcileAfterCall
       ELSE contextPath' = contextPath /\ ReconcileSameContext
  /\ UNCHANGED << userRouteHandlers, routeHandlers, mounted, unmounted,
                  resolverRoute, discarded >>

\* React unmounts the component, and what is mounted inside it; the class
\* has no componentWillUnmount
Unmount ==
  /\ mounted /\ ~unmounted
  /\ unmounted' = TRUE
  /\ rendered' = <<>>
  /\ child' = NoChild
  /\ UNCHANGED << userRouteHandlers, routeHandlers, contextPath, mounted,
                  outlets, currentZoneID, zones, consoleErrors, uncaught,
                  resolverRoute, discarded >>

\* the promise a thunk of zone z returned settles: it is fulfilled with the
\* component, or rejected with an Error or with null or undefined
ThunkSettles ==
  \E z \in DOMAIN zones :
    \E key \in DOMAIN zones[z].thunks :
      \E outcome \in {"fulfilled", "Error", "nullish"} :
        /\ zones[z].thunks[key] = "pending"
        /\ zones' = [zones EXCEPT
             ![z].thunks[key] = IF outcome = "fulfilled" THEN "fulfilled"
                                ELSE "rejected",
             ![z].reason = IF outcome # "fulfilled" /\ @ = "none"
                           THEN outcome ELSE @]
        /\ UNCHANGED << userRouteHandlers, routeHandlers, contextPath, mounted,
                        outlets, currentZoneID, consoleErrors, uncaught,
                        unmounted, rendered, resolverRoute, child,
                        discarded >>

\* the getComponents promise of zone z is fulfilled: every thunk is
Fulfilled(z) ==
  /\ zones[z].handler # 0
  /\ ~zones[z].threw
  /\ \A key \in DOMAIN zones[z].thunks : zones[z].thunks[key] = "fulfilled"

\* the getComponents promise of zone z is rejected
Rejected(z) == ~zones[z].threw /\ zones[z].reason # "none"

\* this.setState({ outlets: new }) as a callback of zone z calls it, after
\* the zone check alone: there is no componentWillUnmount and no mounted
\* flag, so the call is made on an unmounted component too.  React 15 then
\* leaves this.state as it is and warns; `discarded` keeps the call
SetStateCall(z, new) ==
  /\ outlets' = IF unmounted THEN outlets ELSE SetState(outlets, new)
  /\ discarded' = IF unmounted THEN Append(discarded, z) ELSE discarded

\* the .then callback of computeOutlet.  Its setState renders at once: a
\* nested instance whose computeOutlet throws in that render (a thunk of
\* its throws when called) makes setState, and the then-callback with it,
\* throw after the state is set, which rejects the promise .catch is
\* chained on with what the thunk threw: an Error, or null or undefined
ThenCallback ==
  \E z \in DOMAIN zones :
    /\ Fulfilled(z)
    /\ ~zones[z].done
    /\ IF SameZone(z)
       THEN SetStateCall(z, BuildOutlets(zones[z].handler, zones[z].path))
       ELSE UNCHANGED << outlets, discarded >>
    /\ rendered' = IF SameZone(z) /\ ~unmounted THEN <<Render(outlets')>>
                   ELSE rendered
    /\ IF SameZone(z) /\ ~unmounted THEN Reconcile(outlets')
       ELSE child' = child
    /\ LET thenThrew == /\ SameZone(z) /\ ~unmounted
                         /\ child'.mounted
                         /\ child'.zones[child'.currentZoneID].threw
       IN  \E thrown \in {"Error", "nullish"} :
             /\ thenThrew \/ thrown = "Error"
             /\ zones' = [zones EXCEPT
                  ![z].done = TRUE,
                  ![z].thenError = IF thenThrew THEN "threw" ELSE "none",
                  ![z].thrown = IF thenThrew THEN thrown ELSE "none"]
    /\ UNCHANGED << userRouteHandlers, routeHandlers, contextPath, mounted,
                    currentZoneID, consoleErrors, uncaught, unmounted,
                    resolverRoute >>

\* the promise .catch is chained on is rejected and its callback has not
\* run: getComponents rejected, or the then-callback threw
CatchPending(z) ==
  IF zones[z].thenError = "threw" THEN TRUE
  ELSE Rejected(z) /\ ~zones[z].done

\* the error the catch-callback of zone z is called with
CaughtError(z) ==
  IF zones[z].thenError = "threw" THEN zones[z].thrown ELSE zones[z].reason

\* the .catch callback of computeOutlet, for a rejection of getComponents
\* or for what the then-callback threw: error.stack of null or undefined
\* is a TypeError, thrown before anything else is done
CatchCallback ==
  \E z \in DOMAIN zones :
    /\ CatchPending(z)
    /\ zones' = [zones EXCEPT
         ![z].done = TRUE,
         ![z].thenError = IF @ = "threw" THEN "caught" ELSE @]
    /\ IF CaughtError(z) = "nullish"
       THEN /\ uncaught' = Append(uncaught, z)
            /\ UNCHANGED << consoleErrors, outlets, rendered, child,
                            discarded >>
       ELSE /\ consoleErrors' = Append(consoleErrors, z)
            /\ IF SameZone(z) THEN SetStateCall(z, EmptyObject)
               ELSE UNCHANGED << outlets, discarded >>
            /\ rendered' = IF SameZone(z) /\ ~unmounted
                           THEN <<Render(outlets')>> ELSE rendered
            /\ IF SameZone(z) /\ ~unmounted THEN Reconcile(outlets')
               ELSE child' = child
            /\ uncaught' = uncaught
    /\ UNCHANGED << userRouteHandlers, routeHandlers, contextPath, mounted,
                    currentZoneID, unmounted, resolverRoute >>

Next ==
  \/ componentDidMount
  \/ componentWillReceiveProps
  \/ Unmount
  \/ ThunkSettles
  \/ ThenCallback
  \/ CatchCallback

Spec == Init /\ [][Next]_vars

\* the promise a thunk of zone z of the nested instance returned settles
ChildThunkSettles ==
  \E z \in DOMAIN child.zones :
    \E key \in DOMAIN child.zones[z].thunks :
      \E outcome \in {"fulfilled", "Error", "nullish"} :
        /\ child.zones[z].thunks[key] = "pending"
        /\ child' = [child EXCEPT
             !.zones[z].thunks[key] = IF outcome = "fulfilled" THEN "fulfilled"
                                      ELSE "rejected",
             !.zones[z].reason = IF outcome # "fulfilled" /\ @ = "none"
                                 THEN outcome ELSE @]
        /\ UNCHANGED << userRouteHandlers, routeHandlers, contextPath, mounted,
                        outlets, currentZoneID, zones, consoleErrors, uncaught,
                        unmounted, rendered, resolverRoute, discarded >>

\* the .then callback of computeOutlet of the nested instance
ChildThenCallback ==
  \E z \in DOMAIN child.zones :
    /\ child.zones[z].handler # 0 /\ ~child.zones[z].threw
    /\ \A key \in DOMAIN child.zones[z].thunks :
         child.zones[z].thunks[key] = "fulfilled"
    /\ ~child.zones[z].done
    /\ child' = [child EXCEPT
         !.zones[z].done = TRUE,
         !.outlets = IF z # child.currentZoneID THEN @
                     ELSE SetState(@, BuildOutletsOf(childRouteHandlers,
                                                     child.zones[z].handler,
                                                     child.zones[z].path))]
    /\ UNCHANGED << userRouteHandlers, routeHandlers, contextPath, mounted,
                    outlets, currentZoneID, zones, consoleErrors, uncaught,
                    unmounted, rendered, resolverRoute, discarded >>

\* the .catch callback of computeOutlet of the nested instance; what it
\* logs, or that it throws at error.stack, is told by the zone's reason
ChildCatchCallback ==
  \E z \in DOMAIN child.zones :
    /\ ~child.zones[z].threw /\ child.zones[z].reason # "none"
    /\ ~child.zones[z].done
    /\ child' = [child EXCEPT
         !.zones[z].done = TRUE,
         !.outlets = IF z # child.currentZoneID
                        \/ child.zones[z].reason = "nullish" THEN @
                     ELSE SetState(@, EmptyObject)]
    /\ UNCHANGED << userRouteHandlers, routeHandlers, contextPath, mounted,
                    outlets, currentZoneID, zones, consoleErrors, uncaught,
                    unmounted, rendered, resolverRoute, discarded >>

\* a RouteOutlet with a nested one
NextNested ==
  \/ componentDidMount
  \/ componentWillReceiveProps
  \/ Unmount
  \/ ThunkSettles
  \/ ThenCallback
  \/ CatchCallback
  \/ ChildThunkSettles
  \/ ChildThenCallback
  \/ ChildCatchCallback

SpecNested == InitNested /\ [][NextNested]_vars

\* one computeOutlet call on each table and path of the matching inputs
NextMatch ==
  \/ componentDidMount
  \/ ThunkSettles
  \/ ThenCallback
  \/ CatchCallback

SpecMatch == InitMatch /\ [][NextMatch]_vars

\* a pattern that declares the parameter name a twice
pDup == <<"/", ":", "a", "/", ":", "a">>

\* route tables with that pattern
DupTables ==
  { << Route(pDup, "undefined", Thunk) >>,
    << Route(pA, "true", Thunk), Route(pDup, "undefined", Thunk) >> }

InitDup == InitWith(DupTables, MatchPaths) /\ resolverRoute = 0

\* one computeOutlet call on each of these tables and each path
SpecDup == InitDup /\ [][NextMatch]_vars

(***************************************************************************)
(* The claims.                                                             *)
(***************************************************************************)
\* route handler i matches the path
Matches(i, path) == Test(routeHandlers[i].pathRegExp, path)

\* the zone whose computeOutlet call is the latest one
Current == zones[currentZoneID]

\* C1: a step in which a thunk or the getComponents promise of a zone that
\* is no longer the current one completes (a thunk settles, the then- or
\* catch-callback runs) leaves the outlets exactly as they were.
C1_StaleCompletionKeepsOutlets ==
  [][\A z \in DOMAIN zones :
       (z # currentZoneID /\ zones'[z] # zones[z]) => outlets' = outlets]_vars

\* C1 witness: the promise of an older zone was fulfilled and its callback
\* has run while a newer call, still pending, had already taken over: the
\* outlets are still empty.
C1_Witness ==
  \E z \in DOMAIN zones :
    /\ z < currentZoneID
    /\ Fulfilled(z) /\ zones[z].done
    /\ Current.handler # 0 /\ ~Current.threw /\ ~Current.done
    /\ outlets = EmptyObject

\* C3: the handler a computeOutlet call uses is the one with the lowest
\* index among those that match the path, and none when none matches; a
\* table with handlers that do not match the path removed or moved gives the
\* same handler.
C3_FirstMatchWins ==
  \A z \in DOMAIN zones :
    LET path == zones[z].path
        h    == zones[z].handler
        n    == Len(routeHandlers)
        same(table) ==
          IF h = 0 THEN Find(table, path) = 0
          ELSE /\ Find(table, path) # 0
               /\ table[Find(table, path)] = routeHandlers[h]
    IN  /\ h = 0 => \A i \in 1..n : ~Matches(i, path)
        /\ h # 0 => /\ Matches(h, path)
                    /\ \A j \in 1..(h - 1) : ~Matches(j, path)
        /\ \A i \in 1..n :
             ~Matches(i, path) =>
               same(SubSeq(routeHandlers, 1, i - 1)
                      \o SubSeq(routeHandlers, i + 1, n))
        /\ \A perm \in [1..n -> 1..n] :
             ( /\ \A i, j \in 1..n : i # j => perm[i] # perm[j]
               /\ \A i, j \in 1..n :
                    (i < j /\ Matches(perm[i], path) /\ Matches(perm[j], path))
                      => perm[i] < perm[j] )
             => same([i \in 1..n |-> routeHandlers[perm[i]]])

\* C3 witness: a call used a handler although a later handler of the table
\* matches the path too (the "/*" handler before "/c", for the path "/c/d").
C3_Witness ==
  \E z \in DOMAIN zones :
    /\ zones[z].handler # 0
    /\ zones[z].path = <<"/", "c", "/", "d">>
    /\ userRouteHandlers[zones[z].handler].path = pStar
    /\ \E j \in (zones[z].handler + 1)..Len(routeHandlers) :
         /\ userRouteHandlers[j].path = pC
         /\ Matches(j, zones[z].path)

\* C4: a computeOutlet call whose path no handler matches sets the outlets
\* to the empty object in that very step, whatever they were and whatever
\* older zones are pending; it calls no thunk, console.error is not called
\* and nothing is thrown.
C4_NoMatchClearsAtOnce ==
  [][(currentZoneID' = currentZoneID + 1
        /\ \A i \in 1..Len(routeHandlers) :
             ~Matches(i, zones'[currentZoneID'].path))
     => /\ outlets' = EmptyObject
        /\ DOMAIN zones'[currentZoneID'].thunks = {}
        /\ consoleErrors' = consoleErrors
        /\ uncaught' = uncaught
        /\ \A z \in DOMAIN zones : zones'[z] = zones[z]]_vars

\* C4 witness: the latest call matched no handler and the outlets are empty
\* while the fulfilled promise of an older zone still waits for its callback.
C4_Witness ==
  /\ currentZoneID > 1
  /\ Current.handler = 0
  /\ outlets = EmptyObject
  /\ consoleErrors = <<>> /\ uncaught = <<>>
  /\ \E z \in 1..(currentZoneID - 1) : Fulfilled(z) /\ ~zones[z].done

\* what the then-callback of zone z gets from pathRegExp.exec
ExecOf(z) == Exec(routeHandlers[zones[z].handler].pathRegExp, zones[z].path)

\* the zone's promise was fulfilled and its then-callback has run
Completed(z) == Fulfilled(z) /\ zones[z].done

\* C5: when the outlets are not empty, they come from a completed call
\* such that the text its pattern matched, followed by the path each outlet
\* provides to its children, is the path of that call.
C5_MatchPlusRestIsPath ==
  outlets # EmptyObject =>
    \E z \in DOMAIN zones :
      /\ Completed(z)
      /\ \A key \in DOMAIN outlets :
           ExecOf(z).match \o outlets[key].path = zones[z].path

\* C5 witness: "/a/b/c" on the handler "/a": the outlet provides "/b/c".
C5_Witness ==
  /\ currentZoneID = 1
  /\ zones[1].path = <<"/", "a", "/", "b", "/", "c">>
  /\ zones[1].handler # 0
  /\ userRouteHandlers[zones[1].handler].path = pA
  /\ DOMAIN outlets = {"default"}
  /\ outlets["default"].path = <<"/", "b", "/", "c">>

\* the pattern has no parameter and no asterisk
IsLiteral(pattern) == \A i \in 1..Len(pattern) : pattern[i] \notin {":", "*"}

\* the string without one slash at its end
WithoutEndSlash(str) ==
  IF str # <<>> /\ str[Len(str)] = "/" THEN SubSeq(str, 1, Len(str) - 1) ELSE str

\* the path starts with the string, which ends where a segment of the path ends
SegmentPrefix(str, path) ==
  /\ Len(str) <= Len(path)
  /\ SubSeq(path, 1, Len(str)) = str
  /\ Len(path) = Len(str) \/ path[Len(str) + 1] = "/"

\* C8: a handler without `end` matches only whole paths when its pattern is
\* "/" (the path "/" and no longer one), and otherwise, its pattern being
\* literal, matches every path it is a segment-wise prefix of; a handler
\* with `end` true matches only whole paths, one with `end` false matches
\* every path its pattern is a segment-wise prefix of.
C8_EndOption ==
  \A i \in DOMAIN userRouteHandlers :
    LET user  == userRouteHandlers[i]
        exec  == Exec(routeHandlers[i].pathRegExp, contextPath)
        whole == exec.ok => exec.match = contextPath
        prefix == (IsLiteral(user.path)
                    /\ SegmentPrefix(WithoutEndSlash(user.path), contextPath))
                  => exec.ok
    IN  /\ (user.end = "undefined" /\ user.path = <<"/">>) =>
             /\ whole
             /\ contextPath = <<"/">> => exec.ok
             /\ Len(contextPath) > 1 => ~exec.ok
        /\ (user.end = "undefined" /\ user.path # <<"/">>) => prefix
        /\ user.end = "true" => whole
        /\ user.end = "false" => prefix

\* C8 witness: with the handlers "/", "/a", "/b", none giving `end`, the
\* path "/a/b" went to "/a": "/" did not match it and "/a" did.
C8_Witness ==
  /\ currentZoneID = 1
  /\ zones[1].path = <<"/", "a", "/", "b">>
  /\ Len(userRouteHandlers) = 3
  /\ userRouteHandlers[1].path = pIndex /\ userRouteHandlers[1].end = "undefined"
  /\ userRouteHandlers[2].path = pA /\ userRouteHandlers[2].end = "undefined"
  /\ zones[1].handler = 2

\* path.split("/")
RECURSIVE Split(_, _, _)
Split(str, p, segment) ==
  IF p > Len(str) THEN <<segment>>
  ELSE IF str[p] = "/" THEN <<segment>> \o Split(str, p + 1, <<>>)
  ELSE Split(str, p + 1, Append(segment, str[p]))

\* the pattern is made of "/:name" parameters only
OnlyParams(re) ==
  \A i \in 1..Len(re.tokens) :
    /\ re.tokens[i].kind = "key"
    /\ ~re.tokens[i].asterisk
    /\ re.tokens[i].prefix = <<"/">>

\* the number of segments of the path that are not empty
NumSegments(path) ==
  Cardinality({i \in 1..Len(Split(path, 1, <<>>)) : Split(path, 1, <<>>)[i] # <<>>})

\* C9: the props of every outlet the current call published map the i-th
\* key name of its pattern to the i-th capture, and nothing else; for a
\* pattern of parameters only the i-th capture is the i-th segment of the
\* path, and a path with fewer segments than parameters is not matched.
C9_Params ==
  /\ \A z \in DOMAIN zones :
       (Completed(z) /\ SameZone(z)) =>
         \A key \in DOMAIN outlets :
           LET re    == routeHandlers[zones[z].handler].pathRegExp
               props == outlets[key].props
           IN  /\ DOMAIN props = {re.keys[i] : i \in 1..Len(re.keys)}
               /\ \A i \in 1..Len(re.keys) : props[re.keys[i]] = ExecOf(z).caps[i]
               /\ OnlyParams(re) =>
                    \A i \in 1..Len(re.keys) :
                      props[re.keys[i]] = Split(zones[z].path, 1, <<>>)[i + 1]
  /\ \A i \in DOMAIN routeHandlers :
       (OnlyParams(routeHandlers[i].pathRegExp)
          /\ NumSegments(contextPath) < Len(routeHandlers[i].pathRegExp.keys))
       => ~Matches(i, contextPath)

\* C9 witness: "/a/b/c" on "/:a/:b" gives a = "a", b = "b" and leaves "/c".
C9_Witness ==
  /\ currentZoneID = 1
  /\ zones[1].path = <<"/", "a", "/", "b", "/", "c">>
  /\ userRouteHandlers[1].path = pParams
  /\ DOMAIN outlets = {"default"}
  /\ DOMAIN outlets["default"].props = {<<"a">>, <<"b">>}
  /\ outlets["default"].props[<<"a">>] = <<"a">>
  /\ outlets["default"].props[<<"b">>] = <<"b">>
  /\ outlets["default"].path = <<"/", "c">>

\* the keys of the components map of user route handler h
ComponentKeys(h) ==
  IF userRouteHandlers[h].component.type = "function" THEN {"default"}
  ELSE {userRouteHandlers[h].component.keys[i] :
          i \in 1..Len(userRouteHandlers[h].component.keys)}

\* C10: outlets that are not empty have the keys of the components map of
\* the handler of one completed call, no more and no fewer, and each of
\* them holds the component of that handler under its key, with the params
\* and the rest of the path of that one call.
C10_OutletsOfOneCall ==
  outlets # EmptyObject =>
    \E z \in DOMAIN zones :
      /\ Completed(z)
      /\ DOMAIN outlets = ComponentKeys(zones[z].handler)
      /\ \A key \in DOMAIN outlets :
           /\ outlets[key].component = [route |-> zones[z].handler, key |-> key]
           /\ outlets[key].props =
                SetParams(EmptyObject,
                          routeHandlers[zones[z].handler].pathRegExp.keys,
                          ExecOf(z).caps, 1)
           /\ outlets[key].path = PathRest(zones[z].path, ExecOf(z).match)

\* C10 witness: the outlets "one" and "two" of a first call were replaced
\* by the outlets "two" and "three" of a second one, with its params.
C10_Witness ==
  /\ currentZoneID = 2
  /\ Completed(1) /\ Completed(2)
  /\ ComponentKeys(zones[1].handler) = {"one", "two"}
  /\ DOMAIN outlets = {"two", "three"}
  /\ outlets["two"].props # EmptyObject

\* no callback is still to run and no thunk is still to settle
AllCompleted ==
  \A z \in DOMAIN zones :
    /\ zones[z].done /\ zones[z].thenError # "threw"
    /\ \A key \in DOMAIN zones[z].thunks : zones[z].thunks[key] # "pending"

\* the outlets that belong to the path of zone z: those of its handler when
\* its components were loaded, none when no handler matched or loading failed
OutletsFor(z) ==
  IF zones[z].handler # 0 /\ Fulfilled(z)
  THEN BuildOutlets(zones[z].handler, zones[z].path)
  ELSE EmptyObject

\* C2: once every thunk called has settled and every callback has run, the
\* outlets are those that belong to the path of the latest computeOutlet
\* call: built from its handler when its components were loaded, empty when
\* no handler matched or loading failed.
C2_LatestCallWins ==
  (zones # <<>> /\ AllCompleted) => outlets = OutletsFor(currentZoneID)

\* C6: outlets that are not empty have exactly the keys of the components
\* map of a call all of whose thunks were fulfilled, and once the
\* catch-callback of the current zone has run for a rejected thunk the
\* outlets are empty.
C6_FanOutAtomicity ==
  /\ outlets # EmptyObject =>
       \E z \in DOMAIN zones :
         Completed(z) /\ DOMAIN outlets = ComponentKeys(zones[z].handler)
  /\ \A z \in DOMAIN zones :
       (Rejected(z) /\ zones[z].done /\ SameZone(z)) => outlets = EmptyObject

\* C7: when a thunk of a zone threw, or its promise was rejected and the
\* catch-callback has run, no exception escaped to the caller or went
\* uncaught, console.error was called for the zone, and the outlets are
\* empty if the zone is still the current one.
C7_LoadErrorContained ==
  \A z \in DOMAIN zones :
    (zones[z].threw \/ (Rejected(z) /\ zones[z].done)) =>
      /\ \A i \in 1..Len(uncaught) : uncaught[i] # z
      /\ \E i \in 1..Len(consoleErrors) : consoleErrors[i] = z
      /\ SameZone(z) => outlets = EmptyObject

\* C11: what render last returned has the outlet under "default" as its
\* only child when state.outlets has that key and no child when it has not
\* (the empty outlets included), and in both cases it has the whole of
\* state.outlets, "default" included, as its outlets prop.
C11_RenderChildren ==
  rendered # <<>> =>
    /\ rendered[1].props.outlets = outlets
    /\ "default" \in DOMAIN outlets =>
         rendered[1].children = <<outlets["default"]>>
    /\ "default" \notin DOMAIN outlets => rendered[1].children = <<>>

\* rendered with the default outlet as the child and with both outlets by
\* name, after having been rendered with no outlets and no child
C11_Witness ==
  /\ currentZoneID = 2
  /\ zones[1].handler = 0
  /\ Completed(2)
  /\ rendered # <<>>
  /\ DOMAIN rendered[1].props.outlets = {"default", "one"}
  /\ rendered[1].children = <<outlets["default"]>>

\* the nested instance has nothing left to do for its latest computeOutlet
\* call: no handler matched, or its components were loaded and its
\* then-callback has run
ChildCompleted ==
  /\ child.mounted
  /\ LET z == child.zones[child.currentZoneID]
     IN  /\ z.done /\ ~z.threw
         /\ \A key \in DOMAIN z.thunks : z.thunks[key] = "fulfilled"

\* what is left of path p after its first n characters
Remainder(p, n) == [i \in 1..(Len(p) - n) |-> p[i + n]]

\* the outlets a path resolves to in the table of the nested RouteOutlet
ChildResolution(path) ==
  LET h == Find(childRouteHandlers, path)
  IN  IF h = 0 THEN EmptyObject
      ELSE BuildOutletsOf(childRouteHandlers, h, path)

\* C12: every computeOutlet call of the nested instance is for what a
\* completed call of the parent left of its path after the match of the
\* route that promises the nested component, never for the whole path;
\* and once the latest call of the parent has completed on that route and
\* the latest call of the nested instance has completed, the outlets of
\* the nested instance are those the remainder resolves to in its table.
C12_NestedResolution ==
  /\ \A cz \in DOMAIN child.zones :
       \E z \in DOMAIN zones :
         /\ zones[z].handler = resolverRoute
         /\ Completed(z)
         /\ ExecOf(z).match # <<>>
         /\ zones[z].path = ExecOf(z).match \o child.zones[cz].path
  /\ ( /\ ~unmounted
       /\ currentZoneID # 0
       /\ zones[currentZoneID].handler = resolverRoute
       /\ Completed(currentZoneID)
       /\ ChildCompleted ) =>
     child.outlets =
       ChildResolution(Remainder(zones[currentZoneID].path,
                                 Len(ExecOf(currentZoneID).match)))

\* "/c/a" was resolved on both levels, the nested instance publishing its
\* route "/a"; then "/c/c" was: the nested instance has no outlets and
\* the parent keeps the outlet of its route "/c"
C12_Witness ==
  /\ currentZoneID = 2
  /\ zones[1].path = <<"/", "c", "/", "a">> /\ Completed(1)
  /\ zones[2].path = <<"/", "c", "/", "c">> /\ Completed(2)
  /\ ChildCompleted
  /\ \E cz \in DOMAIN child.zones :
       /\ child.zones[cz].path = <<"/", "a">>
       /\ child.zones[cz].done /\ child.zones[cz].handler = 1
       /\ cz < child.currentZoneID
  /\ child.zones[child.currentZoneID].path = <<"/", "c">>
  /\ child.outlets = EmptyObject
  /\ DOMAIN outlets = {"default"}
  /\ outlets["default"].component.route = resolverRoute

\* C13: when computeOutlet was called twice or more, each time with the
\* same path, the component was not unmounted, the thunks of every call
\* were fulfilled and every callback has run, in whichever order, the
\* outlets are those one call with that path gives: built from the handler
\* found, or empty when none matches.
C13_ResolveTwiceAsOnce ==
  ( /\ currentZoneID >= 2
    /\ ~unmounted
    /\ \A z \in DOMAIN zones :
         /\ zones[z].path = zones[1].path
         /\ zones[z].handler # 0 => Fulfilled(z)
    /\ AllCompleted ) =>
  /\ outlets = OutletsFor(1)
  /\ zones[1].handler # 0 =>
       outlets = BuildOutlets(Find(routeHandlers, zones[1].path), zones[1].path)

\* "/ab" resolved twice in a row, both calls completed, with two outlets
C13_Witness ==
  /\ currentZoneID = 2
  /\ ~unmounted
  /\ zones[1].path = <<"/", "a", "b">> /\ zones[2].path = zones[1].path
  /\ Completed(1) /\ Completed(2)
  /\ DOMAIN outlets = {"one", "two"}

\* C14: the step in which the catch-callback of a rejected zone runs, on a
\* component not unmounted, calls console.error once for the zone, and
\* empties the outlets if the zone is the current one and leaves them as
\* they are if it is not; no other step calls console.error.
C14_RejectionReportedOnce ==
  [][ /\ \A z \in DOMAIN zones :
           (Rejected(z) /\ ~zones[z].done /\ zones'[z].done /\ ~unmounted) =>
             /\ consoleErrors' = Append(consoleErrors, z)
             /\ SameZone(z) => outlets' = EmptyObject
             /\ ~SameZone(z) => outlets' = outlets
      /\ consoleErrors' # consoleErrors =>
           \E z \in DOMAIN zones :
             Rejected(z) /\ ~zones[z].done /\ zones'[z].done ]_vars

\* C15: a step in which computeOutlet is called and finds a route handler
\* leaves the outlets as they were, and the outlets change only in a step
\* in which a callback of the current zone runs or in which computeOutlet
\* is called and finds no route handler.
C15_MatchedCallKeepsOutlets ==
  [][ /\ (currentZoneID' # currentZoneID /\ zones'[currentZoneID'].handler # 0)
           => outlets' = outlets
      /\ outlets' # outlets =>
           \/ currentZoneID' # currentZoneID /\ zones'[currentZoneID'].handler = 0
           \/ /\ currentZoneID' = currentZoneID
              /\ ~zones[currentZoneID].done /\ zones'[currentZoneID].done ]_vars

\* the outlets of "/ab" are still published while the components for
\* another path, whose route handler was found, are loading
C15_Witness ==
  /\ currentZoneID = 2
  /\ Completed(1)
  /\ zones[2].handler # 0 /\ zones[2].handler # zones[1].handler
  /\ ~zones[2].done /\ ~zones[2].threw
  /\ \E key \in DOMAIN zones[2].thunks : zones[2].thunks[key] = "pending"
  /\ outlets = BuildOutlets(zones[1].handler, zones[1].path)
  /\ DOMAIN outlets = {"one", "two"}

\* C16: every computeOutlet call that found a route handler has called
\* each thunk of the handler, one per key of its components map and the
\* single thunk under "default", whatever the path of the call before and
\* whether or not a later call has superseded it.
C16_LoaderInvokedOnce ==
  \A z \in DOMAIN zones :
    zones[z].handler # 0 =>
      /\ DOMAIN zones[z].thunks = ComponentKeys(zones[z].handler)
      /\ \A key \in DOMAIN zones[z].thunks : zones[z].thunks[key] # "notcalled"

\* the keys of a compiled pattern hold one name twice
NameTwice(keys) ==
  \E i, j \in 1..Len(keys) : i # j /\ keys[i] = keys[j]

\* C17: no RouteOutlet is mounted with route handlers made from a table
\* with a pattern that declares one parameter name twice, and no
\* computeOutlet call finds the route handler of such a pattern.
C17_MalformedPatternRejected ==
  /\ mounted =>
       \A i \in DOMAIN routeHandlers : ~NameTwice(routeHandlers[i].pathRegExp.keys)
  /\ \A z \in DOMAIN zones :
       zones[z].handler # 0 =>
         ~NameTwice(routeHandlers[zones[z].handler].pathRegExp.keys)

\* C18: computeOutlet is called, once and with the path then supplied, in
\* the step that mounts the component and in every step that supplies a
\* path other than the one before, and in no other step: an update with
\* the path unchanged starts no new zone and calls no thunk.
C18_OneCallPerDistinctPath ==
  [][ /\ currentZoneID' # currentZoneID =>
           /\ currentZoneID' = currentZoneID + 1
           /\ zones'[currentZoneID'].path = contextPath'
           /\ ~mounted \/ contextPath' # contextPath
      /\ (~mounted /\ mounted') \/ contextPath' # contextPath =>
           currentZoneID' = currentZoneID + 1 ]_vars

=============================================================================
